---- MODULE Spec2Model ----
(***************************************************************************)
(* A model of go-describe-repo (src/main.go): main's pipeline, the scan of *)
(* getRepoDetails (readGitignore, the filtered filepath.Walk, the second,  *)
(* unfiltered filepath.Walk that tallies extensions, the range over the    *)
(* tally) and the two calls of the generation service.                     *)
(*                                                                         *)
(* A path is a sequence of names, <<"sub", "b.go">> for sub/b.go; the root *)
(* of the scanned tree is <<>>.                                            *)
(***************************************************************************)
EXTENDS Integers, Sequences, FiniteSets, TLC

VARIABLES
  envKey,        \* OPENAI_API_KEY is set in the environment the process starts with
  dotenv,        \* the .env file of the working directory: "absent", "nokey", "haskey"
  args,          \* len(os.Args) - 1: the number of command-line arguments
  files,         \* the regular files of the scanned tree, the ignore file apart
  ignoreFile,    \* <root>/.gitignore: absent, unreadable, or present with its lines
  fault,         \* the node of the tree whose lstat or read fails, or NoFault
  pc,            \* the statement of main (or of getRepoDetails) about to run
  err,           \* main's err in the form of the fatal message, "nil" when none
  apiKey,        \* os.Getenv("OPENAI_API_KEY") is non-empty
  gitignore,     \* getRepoDetails' gitignore: nil or the compiled patterns
  fileStructure, \* getRepoDetails' fileStructure
  currentCode,   \* getRepoDetails' currentCode
  todo,          \* the paths the running filepath.Walk has still to visit, next first
  langs,         \* getRepoDetails' langs
  rangeLeft,     \* the keys of langs the range loop has not yet produced
  primaryLang,   \* getRepoDetails' primaryLang
  maxCount,      \* getRepoDetails' maxCount
  ret,           \* what getRepoDetails returned to main, NoRet before it returns
  visited,       \* the paths a walk function was called with (either walk)
  readFiles,     \* the paths os.ReadFile was called with
  walkErrs,      \* the paths at which a walk met a filesystem error
  calls,         \* the outcomes of the callOpenAI calls so far, in order
  disk,          \* the artifacts written into outputDir: name -> content
  lastScan       \* the previous run's ignore file and scan result, NoScan if none

vars == <<envKey, dotenv, args, files, ignoreFile, fault, pc, err, apiKey,
          gitignore, fileStructure, currentCode, todo, langs, rangeLeft,
          primaryLang, maxCount, ret, visited, readFiles, walkErrs, calls,
          disk, lastScan>>

\* The parts of the state no statement of the program changes.
world == <<envKey, dotenv, args, files, ignoreFile, fault, lastScan>>

\* getRepoDetails' locals.
locals == <<gitignore, fileStructure, currentCode, todo, langs, rangeLeft,
            primaryLang, maxCount, visited, readFiles, walkErrs>>

-----------------------------------------------------------------------------
(* Bounds and the universe the inputs are drawn from.                      *)

MaxFiles == 3      \* at most this many regular files in the scanned tree
MaxPatterns == 2   \* at most this many lines in .gitignore

FileUniverse ==
  { <<"a.go">>, <<"b.md">>, <<"sub", "b.go">>,
    <<".git", "config">>, <<"sub", ".git", "config">> }

LineUniverse == { "sub", "sub/", "!sub/b.go" }

NoFault == [path |-> <<"-">>, kind |-> "none"]
EmptyMap == [x \in {} |-> 0]

Range(s) == { s[i] : i \in DOMAIN s }

SeqsUpTo(S, n) == UNION { [1..k -> S] : k \in 0..n }

-----------------------------------------------------------------------------
(* The file system the program sees.                                       *)

IgnorePath == <<".gitignore">>

IsPrefix(d, p) == Len(d) <= Len(p) /\ SubSeq(p, 1, Len(d)) = d

\* The regular files of the tree, the ignore file (when there is one) included.
AllFiles == files \cup (IF ignoreFile.state = "absent" THEN {} ELSE {IgnorePath})

\* The directories: the root and every directory above a file.
Dirs == UNION { { SubSeq(p, 1, k) : k \in 0..(Len(p) - 1) } : p \in AllFiles }

Nodes == AllFiles \cup Dirs \cup {<<>>}

IsDir(p) == p \notin AllFiles

LstatFails(p) == fault.kind = "lstat" /\ fault.path = p
ReadFails(p) == fault.kind = "read" /\ fault.path = p

\* sort.Strings' order (byte order) on the names of the universe.
NameRank(n) ==
  CASE n = ".git" -> 1
    [] n = ".gitignore" -> 2
    [] n = "a.go" -> 3
    [] n = "b.go" -> 4
    [] n = "b.md" -> 5
    [] n = "config" -> 6
    [] n = "sub" -> 7

Children(d) == { p \in Nodes : Len(p) = Len(d) + 1 /\ IsPrefix(d, p) }

RECURSIVE SortByName(_)
SortByName(S) ==
  IF S = {} THEN <<>>
  ELSE LET m == CHOOSE p \in S :
                  \A q \in S : NameRank(p[Len(p)]) <= NameRank(q[Len(q)])
       IN <<m>> \o SortByName(S \ {m})

\* readDirNames: the names of a directory, sorted.
readDirNames(d) == SortByName(Children(d))

\* filepath.Ext of the names of the universe: the suffix from the last dot.
Ext(n) ==
  CASE n = ".git" -> ".git"
    [] n = ".gitignore" -> ".gitignore"
    [] n = "a.go" -> ".go"
    [] n = "b.go" -> ".go"
    [] n = "b.md" -> ".md"
    [] n = "config" -> ""
    [] n = "sub" -> ""

Name(p) == p[Len(p)]

\* The bytes of a file, as its lines.
Content(p) ==
  IF p = IgnorePath THEN ignoreFile.lines
  ELSE CASE Name(p) = "a.go" -> <<"package main">>
         [] Name(p) = "b.go" -> <<"package sub">>
         [] Name(p) = "b.md" -> <<"# notes">>
         [] Name(p) = "config" -> <<"[core]">>

\* filepath.Rel(path, filePath): "." for the root itself.
Rel(p) == IF p = <<>> THEN <<".">> ELSE p

-----------------------------------------------------------------------------
(* The ignore matcher (github.com/sabhiram/go-gitignore), as main.go uses  *)
(* it.  CompileIgnoreLines turns a line into a regular expression that     *)
(* wants the line's names at some place in the path, starting at the       *)
(* path's start or after a slash:                                          *)
(*   sub        the name sub, then the path's end or a slash and anything  *)
(*   sub/       the name sub and a slash, then anything                    *)
(*   !sub/b.go  the names sub/b.go, then the end or a slash; negated       *)
(* body is the run of names the expression wants, dirOnly says that the    *)
(* line ended in a slash, so that a further name must follow the body (a   *)
(* relative path never ends in a slash).                                   *)

PatternOf(line) ==
  CASE line = "sub" -> [negate |-> FALSE, body |-> <<"sub">>, dirOnly |-> FALSE]
    [] line = "sub/" -> [negate |-> FALSE, body |-> <<"sub">>, dirOnly |-> TRUE]
    [] line = "!sub/b.go" ->
         [negate |-> TRUE, body |-> <<"sub", "b.go">>, dirOnly |-> FALSE]

CompileIgnoreLines(lines) ==
  [nil |-> FALSE, patterns |-> [i \in DOMAIN lines |-> PatternOf(lines[i])]]

NilGitIgnore == [nil |-> TRUE, patterns |-> <<>>]

\* ip.Pattern.MatchString(f)
MatchString(ip, f) ==
  \E i \in 1..Len(f) :
    LET last == i + Len(ip.body) - 1
    IN /\ last <= Len(f)
       /\ SubSeq(f, i, last) = ip.body
       /\ ip.dirOnly => last < Len(f)

\* MatchesPath: the patterns in order; a negated pattern that matches takes
\* back a match made before it.
RECURSIVE MatchesFrom(_, _, _, _)
MatchesFrom(patterns, i, f, matchesPath) ==
  IF i > Len(patterns) THEN matchesPath
  ELSE LET ip == patterns[i]
       IN MatchesFrom(patterns, i + 1, f,
            IF MatchString(ip, f)
            THEN (IF ip.negate THEN FALSE ELSE TRUE)
            ELSE matchesPath)

MatchesPath(gi, f) == MatchesFrom(gi.patterns, 1, f, FALSE)

-----------------------------------------------------------------------------
(* Values of the program.                                                  *)

NoRet ==
  [returned |-> FALSE, err |-> "nil", primaryLang |-> "", fileStructure |-> <<>>,
   entryPoint |-> <<>>, currentCode |-> EmptyMap]

\* return "", nil, "", nil, err
ErrRet ==
  [returned |-> TRUE, err |-> "error", primaryLang |-> "", fileStructure |-> <<>>,
   entryPoint |-> <<>>, currentCode |-> EmptyMap]

NoScan ==
  [scanned |-> FALSE, ignore |-> [state |-> "absent", lines |-> <<>>], ret |-> NoRet]

\* strings.TrimPrefix(primaryLang, ".") on the extensions of the universe.
TrimPrefixDot(lang) ==
  CASE lang = "" -> ""
    [] lang = ".go" -> "go"
    [] lang = ".md" -> "md"
    [] lang = ".git" -> "git"
    [] lang = ".gitignore" -> "gitignore"

\* "main." + strings.TrimPrefix(primaryLang, "."), as its two parts.
EntryPointOf(lang) == <<"main.", TrimPrefixDot(lang)>>

generatePrompt(lang, structure, entryPoint) ==
  <<"Primary Language: ", lang, "File Structure:", structure,
    "Entry Point: ", entryPoint, "Based on the above information, please:">>

\* The text the service answers a prompt with, when it answers.
Completion(prompt) == <<"completion of", prompt>>

\* ProjectContext, as json.MarshalIndent writes it.
ProjectContext(description) ==
  [context |-> [project_name |-> "repo", project_description |-> description,
                file_structure |-> ret.fileStructure],
   current_code |-> ret.currentCode]

ContextFile == "project_context.json"
DescriptionFile == "project_description.md"

-----------------------------------------------------------------------------
(* The initial state: the process has started and nothing of main has run. *)

Faults ==
  {NoFault} \cup
  { [path |-> p, kind |-> k] : p \in Nodes \ {IgnorePath}, k \in {"lstat", "read"} }

IgnoreFiles ==
  { [state |-> "absent", lines |-> <<>>], [state |-> "unreadable", lines |-> <<>>] }
  \cup { [state |-> "present", lines |-> ls] : ls \in SeqsUpTo(LineUniverse, MaxPatterns) }

Start ==
  /\ pc = "loadEnv"
  /\ err = "nil"
  /\ apiKey = envKey
  /\ gitignore = NilGitIgnore
  /\ fileStructure = <<>>
  /\ currentCode = EmptyMap
  /\ todo = <<>>
  /\ langs = EmptyMap
  /\ rangeLeft = {}
  /\ primaryLang = ""
  /\ maxCount = 0
  /\ ret = NoRet
  /\ visited = {}
  /\ readFiles = {}
  /\ walkErrs = {}
  /\ calls = <<>>

Init ==
  /\ envKey \in BOOLEAN
  /\ dotenv \in {"absent", "nokey", "haskey"}
  /\ args \in 0..1
  /\ files \in { S \in SUBSET FileUniverse : Cardinality(S) <= MaxFiles }
  /\ ignoreFile \in IgnoreFiles
  /\ fault \in Faults
  /\ lastScan = NoScan
  /\ disk = EmptyMap
  /\ Start

-----------------------------------------------------------------------------
(* main, up to the call of getRepoDetails.                                 *)

\* log.Fatal, log.Fatalf: the process ends with the message.
Fatal(msg) ==
  /\ pc' = "aborted"
  /\ err' = msg

\* loadEnv: godotenv.Load reads .env and sets the variables the environment
\* does not set already; it fails when there is no .env file.
loadEnv ==
  /\ pc = "loadEnv"
  /\ IF dotenv = "absent"
     THEN Fatal("Error loading .env file") /\ UNCHANGED apiKey
     ELSE /\ apiKey' = (envKey \/ dotenv = "haskey")
          /\ pc' = "args"
          /\ UNCHANGED err
  /\ UNCHANGED <<world, locals, ret, calls, disk>>

\* if len(os.Args) < 2
CheckArgs ==
  /\ pc = "args"
  /\ IF args + 1 < 2
     THEN Fatal("Please provide a directory path")
     ELSE pc' = "mkdir" /\ UNCHANGED err
  /\ UNCHANGED <<world, apiKey, locals, ret, calls, disk>>

\* os.MkdirAll(outputDir, 0755)
MkdirAll ==
  /\ pc = "mkdir"
  /\ \E ok \in BOOLEAN :
       IF ok THEN pc' = "readGitignore" /\ UNCHANGED err
       ELSE Fatal("Failed to create directories")
  /\ UNCHANGED <<world, apiKey, locals, ret, calls, disk>>

-----------------------------------------------------------------------------
(* getRepoDetails.                                                         *)

\* getRepoDetails returns an error and main ends on it.
ReturnErr ==
  /\ ret' = ErrRet
  /\ Fatal("Failed to get repo details")

\* The walk that follows a step which leaves `rest` to visit: when nothing is
\* left the first walk has returned nil and the second one starts at the root
\* with an empty tally.
AfterWalk1(rest) ==
  IF rest = <<>>
  THEN /\ pc' = "walk2"
       /\ todo' = << <<>> >>
  ELSE /\ pc' = "walk1"
       /\ todo' = rest

\* readGitignore and the start of the first filepath.Walk.
readGitignore ==
  /\ pc = "readGitignore"
  /\ IF ignoreFile.state = "unreadable"
     THEN ReturnErr /\ UNCHANGED <<gitignore, todo>>
     ELSE /\ gitignore' = IF ignoreFile.state = "absent" THEN NilGitIgnore
                          ELSE CompileIgnoreLines(ignoreFile.lines)
          /\ pc' = "walk1"
          /\ todo' = << <<>> >>
          /\ UNCHANGED <<ret, err>>
  /\ UNCHANGED <<world, apiKey, fileStructure, currentCode, langs, rangeLeft,
                 primaryLang, maxCount, visited, readFiles, walkErrs, calls, disk>>

\* The entry appended to fileStructure and the key of currentCode.
StructureEntry(p) == Rel(p)

\* The content stored under filePath, the path with the root before it.
CodeKey_FilePath(p) == <<"dirPath">> \o p
CodeKey(p) == Rel(p)

\* What the first walk function does with the node p:
\*   "err"      it returns the error it was called with (lstat or ReadDir)
\*   "SkipDir"  it returns filepath.SkipDir
\*   "nil"      it returns nil for an ignored file
\*   "readerr"  it appends the path and returns os.ReadFile's error
\*   "record"   it appends the path and stores the content
\*   "descend"  it returns nil for a directory, which Walk then enters
\* The root is taken not to be named .git itself.

\* The walk function with nil returned for an ignored directory too.
walkFn1_NoSkipDir(p) ==
  IF LstatFails(p) \/ (IsDir(p) /\ ReadFails(p)) THEN "err"
  ELSE IF ~gitignore.nil /\ MatchesPath(gitignore, Rel(p))
       THEN (IF IsDir(p) THEN "descend" ELSE "nil")
  ELSE IF IsDir(p) /\ p # <<>> /\ Name(p) = ".git" THEN "SkipDir"
  ELSE IF ~IsDir(p) THEN (IF ReadFails(p) THEN "readerr" ELSE "record")
  ELSE "descend"

walkFn1(p) ==
  IF LstatFails(p) \/ (IsDir(p) /\ ReadFails(p)) THEN "err"
  ELSE IF ~gitignore.nil /\ MatchesPath(gitignore, Rel(p))
       THEN (IF IsDir(p) THEN "SkipDir" ELSE "nil")
  ELSE IF IsDir(p) /\ p # <<>> /\ Name(p) = ".git" THEN "SkipDir"
  ELSE IF ~IsDir(p) THEN (IF ReadFails(p) THEN "readerr" ELSE "record")
  ELSE "descend"

\* One call of the first walk function by filepath.Walk, and what Walk does on
\* its result.  Walk lstats a node and reads a directory's names before the call.
Walk1 ==
  /\ pc = "walk1"
  /\ todo # <<>>
  /\ LET p == Head(todo)
         r == walkFn1(p)
     IN /\ visited' = visited \cup {p}
        /\ walkErrs' = IF r \in {"err", "readerr"} THEN walkErrs \cup {p} ELSE walkErrs
        /\ readFiles' = IF r \in {"readerr", "record"} THEN readFiles \cup {p}
                        ELSE readFiles
        /\ fileStructure' = IF r \in {"readerr", "record"}
                            THEN Append(fileStructure, StructureEntry(p))
                            ELSE fileStructure
        /\ currentCode' = IF r = "record"
                          THEN (CodeKey(p) :> Content(p)) @@ currentCode
                          ELSE currentCode
        /\ IF r \in {"err", "readerr"}
           THEN ReturnErr /\ UNCHANGED todo
           ELSE /\ AfterWalk1(IF r = "descend" THEN readDirNames(p) \o Tail(todo)
                              ELSE Tail(todo))
                /\ UNCHANGED <<ret, err>>
  /\ UNCHANGED <<world, apiKey, gitignore, langs, rangeLeft, primaryLang,
                 maxCount, calls, disk>>

\* langs[ext]++
Incr(m, k) == (k :> (IF k \in DOMAIN m THEN m[k] + 1 ELSE 1)) @@ m

\* One call of the second walk function.  It looks at neither the ignore rules
\* nor err; info is nil when lstat failed, and info.IsDir() then panics.
Walk2 ==
  /\ pc = "walk2"
  /\ todo # <<>>
  /\ LET p == Head(todo)
         failed == LstatFails(p) \/ (IsDir(p) /\ ReadFails(p))
         rest == IF IsDir(p) /\ ~ReadFails(p) THEN readDirNames(p) \o Tail(todo)
                 ELSE Tail(todo)
     IN /\ visited' = visited \cup {p}
        /\ walkErrs' = IF failed THEN walkErrs \cup {p} ELSE walkErrs
        /\ IF LstatFails(p)
           THEN /\ Fatal("panic: nil pointer dereference")
                /\ UNCHANGED <<todo, langs, rangeLeft>>
           ELSE /\ langs' = IF IsDir(p) THEN langs ELSE Incr(langs, Ext(Name(p)))
                /\ todo' = rest
                /\ pc' = IF rest = <<>> THEN "range" ELSE "walk2"
                /\ rangeLeft' = IF rest = <<>> THEN DOMAIN langs' ELSE rangeLeft
                /\ UNCHANGED err
  /\ UNCHANGED <<world, apiKey, gitignore, fileStructure, currentCode,
                 primaryLang, maxCount, ret, readFiles, calls, disk>>

\* One turn of `for lang, count := range langs`: Go produces the keys of a map
\* in an order that differs from run to run.
RangeLangs ==
  /\ pc = "range"
  /\ \E lang \in rangeLeft :
       /\ rangeLeft' = rangeLeft \ {lang}
       /\ IF langs[lang] > maxCount
          THEN primaryLang' = lang /\ maxCount' = langs[lang]
          ELSE UNCHANGED <<primaryLang, maxCount>>
  /\ UNCHANGED <<world, pc, err, apiKey, gitignore, fileStructure, currentCode,
                 todo, langs, ret, visited, readFiles, walkErrs, calls, disk>>

\* entryPoint and the return to main.
ReturnDetails ==
  /\ pc = "range"
  /\ rangeLeft = {}
  /\ ret' = [returned |-> TRUE, err |-> "nil", primaryLang |-> primaryLang,
             fileStructure |-> fileStructure,
             entryPoint |-> EntryPointOf(primaryLang),
             currentCode |-> currentCode]
  /\ pc' = "call1"
  /\ UNCHANGED <<world, err, apiKey, locals, calls, disk>>

-----------------------------------------------------------------------------
(* main, from the first call of the generation service on.                 *)

\* What the service can do with a request: answer, fail, or answer with no
\* choice (resp.Choices[0] then panics).  Without a key it refuses.
Outcomes == IF apiKey THEN {"ok", "error", "empty"} ELSE {"error"}

\* main with the first call's error dropped.
AfterInitialCall_IgnoreErr(outcome) == "assemble"

\* The statement main goes on with after the first call.
AfterInitialCall(outcome) == IF outcome = "ok" THEN "assemble" ELSE "aborted"

\* main with the second call made again when it fails.
AfterFollowupCall_Retry(outcome) == IF outcome = "ok" THEN "write2" ELSE "call2"

\* The statement main goes on with after the second call.
AfterFollowupCall(outcome) == IF outcome = "ok" THEN "write2" ELSE "aborted"

\* callOpenAI(prompt) and main's check of its error.
callOpenAI(prompt, next, msg) ==
  \E outcome \in Outcomes :
    /\ calls' = Append(calls, [prompt |-> prompt, outcome |-> outcome])
    /\ pc' = next[outcome]
    /\ err' = IF next[outcome] # "aborted" THEN err
              ELSE IF outcome = "empty" THEN "panic: index out of range"
              ELSE msg

InitialPrompt == generatePrompt(ret.primaryLang, ret.fileStructure, ret.entryPoint)

\* finalPrompt, err := callOpenAI(initialPrompt)
InitialCall ==
  /\ pc = "call1"
  /\ callOpenAI(InitialPrompt,
                [o \in {"ok", "error", "empty"} |-> AfterInitialCall(o)],
                "Failed to call OpenAI")
  /\ UNCHANGED <<world, apiKey, locals, ret, disk>>

\* projectContext := ProjectContext{...}
Assemble ==
  /\ pc = "assemble"
  /\ pc' = "marshal"
  /\ UNCHANGED <<world, err, apiKey, locals, ret, calls, disk>>

\* json.MarshalIndent: it cannot fail on strings, string slices and string maps.
MarshalIndent ==
  /\ pc = "marshal"
  /\ pc' = "write1"
  /\ UNCHANGED <<world, err, apiKey, locals, ret, calls, disk>>

\* finalPrompt, when the first call answered.
FinalPrompt ==
  IF calls # <<>> /\ calls[1].outcome = "ok" THEN Completion(calls[1].prompt)
  ELSE <<>>

\* os.WriteFile: on an error the file may have been created or cut short already.
WriteFile(name, data, next, msg) ==
  \E ok \in BOOLEAN, created \in BOOLEAN :
    /\ ok => created
    /\ disk' = IF ok THEN (name :> data) @@ disk
               ELSE IF created THEN (name :> <<"cut short">>) @@ disk
               ELSE disk
    /\ IF ok THEN pc' = next /\ UNCHANGED err ELSE Fatal(msg)

\* os.WriteFile(jsonFilePath, jsonData, 0644)
WriteContext ==
  /\ pc = "write1"
  /\ WriteFile(ContextFile, <<"json", ProjectContext(FinalPrompt)>>, "read1",
               "Failed to write JSON file")
  /\ UNCHANGED <<world, apiKey, locals, ret, calls>>

\* jsonContent, err := os.ReadFile(jsonFilePath)
ReadContext ==
  /\ pc = "read1"
  /\ \E ok \in BOOLEAN :
       IF ok THEN pc' = "call2" /\ UNCHANGED err
       ELSE Fatal("Failed to read JSON file")
  /\ UNCHANGED <<world, apiKey, locals, ret, calls, disk>>

\* projectDescription, err := callOpenAI(newPrompt)
FollowupCall ==
  /\ pc = "call2"
  /\ callOpenAI(<<"Take in the following json data", disk[ContextFile]>>,
                [o \in {"ok", "error", "empty"} |-> AfterFollowupCall(o)],
                "Failed to call OpenAI for project description")
  /\ UNCHANGED <<world, apiKey, locals, ret, disk>>

\* os.WriteFile(mdFilePath, []byte(projectDescription), 0644)
WriteDescription ==
  /\ pc = "write2"
  /\ WriteFile(DescriptionFile, Completion(calls[Len(calls)].prompt), "done",
               "Failed to write Markdown file")
  /\ UNCHANGED <<world, apiKey, locals, ret, calls>>

-----------------------------------------------------------------------------
(* The program run a second time on the same tree.                         *)

\* A new process starts after the first one has ended; what the first scan
\* returned is kept for comparison.
Restart ==
  /\ pc = "done"
  /\ ~lastScan.scanned
  /\ lastScan' = [scanned |-> TRUE, ignore |-> ignoreFile, ret |-> ret]
  /\ pc' = "loadEnv"
  /\ err' = "nil"
  /\ apiKey' = envKey
  /\ gitignore' = NilGitIgnore
  /\ fileStructure' = <<>>
  /\ currentCode' = EmptyMap
  /\ todo' = <<>>
  /\ langs' = EmptyMap
  /\ rangeLeft' = {}
  /\ primaryLang' = ""
  /\ maxCount' = 0
  /\ ret' = NoRet
  /\ visited' = {}
  /\ readFiles' = {}
  /\ walkErrs' = {}
  /\ calls' = <<>>
  /\ UNCHANGED <<envKey, dotenv, args, files, fault, disk>>

\* The same command given again.
Rerun ==
  /\ Restart
  /\ UNCHANGED ignoreFile

\* An empty .gitignore is created at the root, and the command is given again.
RerunWithEmptyIgnore ==
  /\ ignoreFile.state = "absent"
  /\ Restart
  /\ ignoreFile' = [state |-> "present", lines |-> <<>>]

-----------------------------------------------------------------------------
Next ==
  \/ loadEnv
  \/ CheckArgs
  \/ MkdirAll
  \/ readGitignore
  \/ Walk1
  \/ Walk2
  \/ RangeLangs
  \/ ReturnDetails
  \/ InitialCall
  \/ Assemble
  \/ MarshalIndent
  \/ WriteContext
  \/ ReadContext
  \/ FollowupCall
  \/ WriteDescription

Spec == Init /\ [][Next]_vars

\* The program run twice by a user with a working credential, on a tree
\* whose nodes can all be read.
InitRescan ==
  /\ Init
  /\ envKey
  /\ dotenv = "haskey"
  /\ args = 1
  /\ fault = NoFault

NextRescan ==
  \/ Next
  \/ Rerun
  \/ RerunWithEmptyIgnore

SpecRescan == InitRescan /\ [][NextRescan]_vars

-----------------------------------------------------------------------------
(* Notions the properties are stated with.                                 *)

\* The ignore rules of the tree, as the file states them.
Rules ==
  IF ignoreFile.state = "present" THEN CompileIgnoreLines(ignoreFile.lines)
  ELSE NilGitIgnore

\* The directory d is one the scan has to prune.
Pruned(d) == MatchesPath(Rules, d) \/ Name(d) = ".git"

\* The relative path rel lies under a pruned directory.
UnderPruned(rel) == \E k \in 1..(Len(rel) - 1) : Pruned(SubSeq(rel, 1, k))

ScanSucceeded == ret.returned /\ ret.err = "nil"

\* How many entries of the file structure fs have the extension ext.
CountIn(fs, ext) == Cardinality({ i \in DOMAIN fs : Ext(Name(fs[i])) = ext })

ExtsOf(fs) == { Ext(Name(fs[i])) : i \in DOMAIN fs }

Without(fs, entry) == SelectSeq(fs, LAMBDA e : e # entry)

Restrict(m, keys) == [k \in keys |-> m[k]]

\* The stage of the pipeline a statement of main belongs to.
StageOf(at) ==
  CASE at \in {"loadEnv", "args", "mkdir", "readGitignore", "walk1", "walk2",
               "range"} -> 0                              \* Init
    [] at = "call1" -> 1                                  \* Scanned
    [] at = "assemble" -> 2                               \* InitialPromptSent
    [] at = "marshal" -> 3                                \* ContextAssembled
    [] at \in {"write1", "read1", "call2"} -> 4           \* Serialized
    [] at = "write2" -> 5                                 \* FollowupPromptSent
    [] at = "done" -> 6                                   \* Done
    [] at = "aborted" -> 7                                \* Aborted

-----------------------------------------------------------------------------
(* The properties.                                                         *)

C2_StructureIsCodeKeys ==
  /\ ScanSucceeded => Range(ret.fileStructure) = DOMAIN ret.currentCode
  /\ pc \in {"walk1", "walk2", "range"} => Range(fileStructure) = DOMAIN currentCode

\* A scan has succeeded and returned two files or more, one below the root.
C2_Witness ==
  /\ ScanSucceeded
  /\ Len(ret.fileStructure) >= 2
  /\ \E i \in DOMAIN ret.fileStructure : Len(ret.fileStructure[i]) = 2

\* C3: the tally the primary language is picked from counts exactly the files
\* of fileStructure, and the primary language has the highest count among them.
C3_TallyOverFileStructure ==
  ScanSucceeded =>
    /\ DOMAIN langs = ExtsOf(ret.fileStructure)
    /\ \A ext \in DOMAIN langs : langs[ext] = CountIn(ret.fileStructure, ext)
    /\ \A ext \in ExtsOf(ret.fileStructure) :
         CountIn(ret.fileStructure, ret.primaryLang) >= CountIn(ret.fileStructure, ext)

\* C4: two scans of the same unchanged tree return the same primaryLang and the
\* same entryPoint.
C4_SameLanguageOnRerun ==
  (lastScan.scanned /\ lastScan.ignore = ignoreFile /\ ScanSucceeded) =>
    /\ ret.primaryLang = lastScan.ret.primaryLang
    /\ ret.entryPoint = lastScan.ret.entryPoint

\* C5: once the first service call has failed no artifact is on disk; once the
\* second has failed the first artifact, whole, is the only one on disk; the
\* process has ended in both cases.
C5_ArtifactsOnServiceFailure ==
  /\ (Len(calls) >= 1 /\ calls[1].outcome # "ok") =>
       pc = "aborted" /\ DOMAIN disk = {}
  /\ (Len(calls) >= 2 /\ calls[2].outcome # "ok") =>
       /\ pc = "aborted"
       /\ DOMAIN disk = {ContextFile}
       /\ disk[ContextFile] = <<"json", ProjectContext(FinalPrompt)>>

\* The second service call has failed.
C5_Witness ==
  /\ Len(calls) = 2
  /\ calls[1].outcome = "ok"
  /\ calls[2].outcome = "error"
  /\ pc = "aborted"

\* A step of the program in which something fails: main's err is set, the scan
\* returns an error, or a service call does not answer.
StepFails ==
  \/ err' # "nil"
  \/ ret'.returned /\ ret'.err # "nil"
  \/ Len(calls') > Len(calls) /\ calls'[Len(calls')].outcome # "ok"

StageStep ==
  /\ pc \notin {"done", "aborted"}
  /\ StepFails <=> pc' = "aborted"
  /\ pc' # "aborted" => StageOf(pc') \in {StageOf(pc), StageOf(pc) + 1}
  /\ Len(calls') > Len(calls) => StageOf(pc) \in {1, 4} /\ Len(calls') = Len(calls) + 1
  /\ disk' # disk => StageOf(pc) \in {4, 5}

\* C6: every step of the pipeline stays in its stage or moves to the next one
\* in the order Init, Scanned, InitialPromptSent, ContextAssembled, Serialized,
\* FollowupPromptSent, Done; a step in which something fails moves to Aborted
\* and no other step does; no step leaves Done or Aborted; a service call is
\* made only from Scanned and from Serialized, a write only from Serialized and
\* from FollowupPromptSent.
C6_StageOrder == [][StageStep]_vars

\* The pipeline has run to Done: two calls answered, both artifacts written.
C6_Witness ==
  /\ pc = "done"
  /\ Len(calls) = 2
  /\ DOMAIN disk = {ContextFile, DescriptionFile}

\* C7: with no credential, neither in the environment nor in the .env file,
\* the process ends before the scan starts; with a credential in the
\* environment the credential loader does not end the process.
C7_CredentialGate ==
  /\ (~envKey /\ dotenv # "haskey") =>
       /\ visited = {}
       /\ ~ret.returned
       /\ pc \notin {"walk1", "walk2", "range"}
  /\ envKey => err # "Error loading .env file"

\* C8: no walk of the scan visits, and nothing reads, an entry beneath a pruned
\* directory.
C8_NothingBeneathPrunedVisited ==
  \A p \in visited \cup readFiles : ~UnderPruned(p)

\* C9: once the scan has met a filesystem error, getRepoDetails has returned an
\* error with empty results and main has ended without a service call and
\* without an artifact.
C9_ErrorFailsTheScan ==
  walkErrs # {} =>
    /\ ret = ErrRet
    /\ pc = "aborted"
    /\ calls = <<>>
    /\ DOMAIN disk = {}

\* C10: the scan of a tree with an empty .gitignore returns what the scan of
\* the same tree without .gitignore returned, the entry of .gitignore apart;
\* and a .gitignore that cannot be read makes the scan fail.
C10_AbsentIsEmpty ==
  /\ (lastScan.scanned /\ lastScan.ignore.state = "absent"
        /\ ignoreFile.state = "present" /\ ret.returned) =>
       /\ ret.err = lastScan.ret.err
       /\ ret.primaryLang = lastScan.ret.primaryLang
       /\ ret.entryPoint = lastScan.ret.entryPoint
       /\ Without(ret.fileStructure, IgnorePath) = lastScan.ret.fileStructure
       /\ Restrict(ret.currentCode, DOMAIN ret.currentCode \ {IgnorePath})
            = lastScan.ret.currentCode
  /\ (ignoreFile.state = "unreadable" /\ ret.returned) => ret.err # "nil"

====
